---- MODULE Spec2Model ----
(***************************************************************************)
(* Nearest-antenna selection of topographicProfile:                        *)
(* FileAnalyzer.get_antennas_to_create_profile walks the antenna table,    *)
(* grouped by (rounded haversine distance, operator), and gathers groups   *)
(* until enough distinct distances and enough distinct operators are in.   *)
(* Around it: PointController.analyze_lat_lon (output.json, map, elevation *)
(* requests, profile plot), distance_utils.haversine, and the scraper's    *)
(* WebScraper.run with FileManager's wait for the download.                *)
(*                                                                         *)
(* Units: latitudes and longitudes are integers in 1e-5 degree (the table  *)
(* is rounded to 5 decimals on load); haversine() is in millimetres (1e-6  *)
(* km); distance_km, after round(.., 2), is in hundredths of a km.         *)
(***************************************************************************)
EXTENDS Integers, Sequences, FiniteSets, TLC

\* ------------------------------------------------------------------ bounds
\* Longest antenna table the model loads (the table of the specification's
\* scenario, four rows, is loaded as well).
MaxRows == 3
\* Largest num_antennas a caller passes.
MaxNumAntennas == 2

\* --------------------------------------------------------- program constants
\* file_analyzer.py:101, the literal in `len(available_companies) < 2`.
MinOperators == 2

\* file_analyzer.py:25, self.columns.
Columns ==
    {"NomeEntidade", "Tecnologia", "FreqTxMHz", "Azimute", "Latitude", "Longitude",
     "AlturaAntena"}

\* ------------------------------------------------------------- input domain
\* Reference points a caller passes as ref_lat_lon.
RefPoints == {<<-2290000, -4320000>>, <<-2290900, -4323900>>}

\* Antenna sites. From the first reference point they are 1.00, 2.00, 3.00 and
\* 4.00 km away; from the second one 4.47, 6.08, 4.47 and 1.00 km away.
Sites ==
    {<<-2289101, -4320000>>, <<-2290000, -4318047>>,
     <<-2292698, -4320000>>, <<-2290000, -4323905>>}

\* Operator names, in the lexical order pandas sorts group keys by.
OperatorNames == <<"A", "B">>

\* NomeEntidade is read as any string: also one that spells the key the
\* result keeps the representative location under.
UnvalidatedNames == <<"A", "lat/lon">>

NameOrder == <<"A", "B", "lat/lon">>

NameRank(name) == CHOOSE i \in 1..Len(NameOrder) : NameOrder[i] = name

\* A missing value: what read_csv gives for an empty field, and for a field
\* spelled NaN, NA or null, also under dtype=str.
NaN == "NaN"

\* One row of the table read by __read_csv: seven columns, the strings as read
\* (dtype=str), latitude and longitude numeric. Lines 49-50 drop the rows
\* without Latitude, Longitude or Tecnologia; a row without NomeEntidade
\* stays.
AntennaRow(name, site) ==
    [NomeEntidade |-> name,
     Tecnologia   |-> IF name = "A" THEN "LTE" ELSE "GSM",
     FreqTxMHz    |-> IF name = "A" THEN "700" ELSE "1800",
     Azimute      |-> IF site[2] = -4320000 THEN "0" ELSE "120",
     Latitude     |-> site[1],
     Longitude    |-> site[2],
     AlturaAntena |-> IF site[1] = -2289101 THEN "30" ELSE "45"]

\* The rows operators can have at the given sites.
NamedRows(sites) ==
    {AntennaRow(OperatorNames[i], s) : i \in 1..Len(OperatorNames), s \in sites}

\* The rows the table can hold for the given sites: an operator's, or one
\* whose NomeEntidade is missing.
AntennaRows(sites) == NamedRows(sites) \cup {AntennaRow(NaN, s) : s \in sites}

\* The tables FileAnalyzer.__init__ can hold after __read_csv: up to MaxRows
\* rows, in any order, rows may repeat.
Tables(sites) == UNION {[1..n -> AntennaRows(sites)] : n \in 0..MaxRows}

\* Those of them in which every row names its operator.
NamedTables(sites) == UNION {[1..n -> NamedRows(sites)] : n \in 0..MaxRows}

\* The tables whose operators are the unvalidated names, at two sites.
UnvalidatedTables ==
    LET rows == {AntennaRow(UnvalidatedNames[i], s) :
                    i \in 1..Len(UnvalidatedNames),
                    s \in {<<-2289101, -4320000>>, <<-2292698, -4320000>>}}
    IN  UNION {[1..n -> rows] : n \in 0..MaxRows}

\* The table of the specification's scenario, in every row order: operator A
\* at the three sites nearest to the first reference point, operator B at the
\* fourth.
ScenarioRows ==
    {AntennaRow(IF s = <<-2290000, -4323905>> THEN "B" ELSE "A", s) : s \in Sites}

ScenarioTables ==
    {t \in [1..Cardinality(ScenarioRows) -> ScenarioRows] :
        \A i, j \in DOMAIN t : t[i] = t[j] => i = j}

\* The two sites that tie (4.47 km) seen from the second reference point and
\* are 1.00 and 3.00 km from the first.
RepeatSites == {<<-2289101, -4320000>>, <<-2292698, -4320000>>}

\* The three sites nearest to the first reference point.
NearSites == RepeatSites \cup {<<-2290000, -4318047>>}

\* ---------------------------------------------------------------- haversine
\* distance_utils.haversine on the model's points, in millimetres (the float
\* result truncated to 1e-6 km).
HaversineMm ==
    <<-2290000, -4320000, -2290000, -4320000>> :> 0
    @@ <<-2290000, -4320000, -2290900, -4323900>> :> 4118129
    @@ <<-2290000, -4320000, -2289101, -4320000>> :> 999642
    @@ <<-2290000, -4320000, -2290000, -4318047>> :> 2000480
    @@ <<-2290000, -4320000, -2292698, -4320000>> :> 3000039
    @@ <<-2290000, -4320000, -2290000, -4323905>> :> 3999936
    @@ <<-2290900, -4323900, -2290000, -4320000>> :> 4118129
    @@ <<-2290900, -4323900, -2290900, -4323900>> :> 0
    @@ <<-2290900, -4323900, -2289101, -4320000>> :> 4467676
    @@ <<-2290900, -4323900, -2290000, -4318047>> :> 6078049
    @@ <<-2290900, -4323900, -2292698, -4320000>> :> 4466704
    @@ <<-2290900, -4323900, -2290000, -4323905>> :> 1000767
    @@ <<-2289101, -4320000, -2290000, -4320000>> :> 999642
    @@ <<-2289101, -4320000, -2290900, -4323900>> :> 4467676
    @@ <<-2289101, -4320000, -2289101, -4320000>> :> 0
    @@ <<-2289101, -4320000, -2290000, -4318047>> :> 2236396
    @@ <<-2289101, -4320000, -2292698, -4320000>> :> 3999681
    @@ <<-2289101, -4320000, -2290000, -4323905>> :> 4123085
    @@ <<-2290000, -4318047, -2290000, -4320000>> :> 2000480
    @@ <<-2290000, -4318047, -2290900, -4323900>> :> 6078049
    @@ <<-2290000, -4318047, -2289101, -4320000>> :> 2236396
    @@ <<-2290000, -4318047, -2290000, -4318047>> :> 0
    @@ <<-2290000, -4318047, -2292698, -4320000>> :> 3605739
    @@ <<-2290000, -4318047, -2290000, -4323905>> :> 6000416
    @@ <<-2292698, -4320000, -2290000, -4320000>> :> 3000039
    @@ <<-2292698, -4320000, -2290900, -4323900>> :> 4466704
    @@ <<-2292698, -4320000, -2289101, -4320000>> :> 3999681
    @@ <<-2292698, -4320000, -2290000, -4318047>> :> 3605739
    @@ <<-2292698, -4320000, -2292698, -4320000>> :> 0
    @@ <<-2292698, -4320000, -2290000, -4323905>> :> 4999654
    @@ <<-2290000, -4323905, -2290000, -4320000>> :> 3999936
    @@ <<-2290000, -4323905, -2290900, -4323900>> :> 1000767
    @@ <<-2290000, -4323905, -2289101, -4320000>> :> 4123085
    @@ <<-2290000, -4323905, -2290000, -4318047>> :> 6000416
    @@ <<-2290000, -4323905, -2292698, -4320000>> :> 4999654
    @@ <<-2290000, -4323905, -2290000, -4323905>> :> 0

\* The same with line 29 taking the cosine of the first latitude twice,
\* np.cos(lat1) * np.cos(lat1), in millimetres.
HaversineFirstLatitudeMm ==
    <<-2290000, -4320000, -2290000, -4320000>> :> 0
    @@ <<-2290000, -4320000, -2290900, -4323900>> :> 4118258
    @@ <<-2290000, -4320000, -2289101, -4320000>> :> 999642
    @@ <<-2290000, -4320000, -2290000, -4318047>> :> 2000480
    @@ <<-2290000, -4320000, -2292698, -4320000>> :> 3000039
    @@ <<-2290000, -4320000, -2290000, -4323905>> :> 3999936
    @@ <<-2290900, -4323900, -2290000, -4320000>> :> 4118001
    @@ <<-2290900, -4323900, -2290900, -4323900>> :> 0
    @@ <<-2290900, -4323900, -2289101, -4320000>> :> 4467439
    @@ <<-2290900, -4323900, -2290000, -4318047>> :> 6077853
    @@ <<-2290900, -4323900, -2292698, -4320000>> :> 4466941
    @@ <<-2290900, -4323900, -2290000, -4323905>> :> 1000767
    @@ <<-2289101, -4320000, -2290000, -4320000>> :> 999642
    @@ <<-2289101, -4320000, -2290900, -4323900>> :> 4467912
    @@ <<-2289101, -4320000, -2289101, -4320000>> :> 0
    @@ <<-2289101, -4320000, -2290000, -4318047>> :> 2236456
    @@ <<-2289101, -4320000, -2292698, -4320000>> :> 3999681
    @@ <<-2289101, -4320000, -2290000, -4323905>> :> 4123214
    @@ <<-2290000, -4318047, -2290000, -4320000>> :> 2000480
    @@ <<-2290000, -4318047, -2290900, -4323900>> :> 6078245
    @@ <<-2290000, -4318047, -2289101, -4320000>> :> 2236337
    @@ <<-2290000, -4318047, -2290000, -4318047>> :> 0
    @@ <<-2290000, -4318047, -2292698, -4320000>> :> 3605850
    @@ <<-2290000, -4318047, -2290000, -4323905>> :> 6000416
    @@ <<-2292698, -4320000, -2290000, -4320000>> :> 3000039
    @@ <<-2292698, -4320000, -2290900, -4323900>> :> 4466467
    @@ <<-2292698, -4320000, -2289101, -4320000>> :> 3999681
    @@ <<-2292698, -4320000, -2290000, -4318047>> :> 3605629
    @@ <<-2292698, -4320000, -2292698, -4320000>> :> 0
    @@ <<-2292698, -4320000, -2290000, -4323905>> :> 4999335
    @@ <<-2290000, -4323905, -2290000, -4320000>> :> 3999936
    @@ <<-2290000, -4323905, -2290900, -4323900>> :> 1000767
    @@ <<-2290000, -4323905, -2289101, -4320000>> :> 4122956
    @@ <<-2290000, -4323905, -2290000, -4318047>> :> 6000416
    @@ <<-2290000, -4323905, -2292698, -4320000>> :> 4999972
    @@ <<-2290000, -4323905, -2290000, -4323905>> :> 0

haversineFirstLatitude(lat1, lon1, lat2, lon2) ==
    HaversineFirstLatitudeMm[<<lat1, lon1, lat2, lon2>>]

haversine(lat1, lon1, lat2, lon2) == HaversineMm[<<lat1, lon1, lat2, lon2>>]

\* The argument tuples at which haversine(..) * 100, the float product that
\* round(.., 2) takes the nearest integer of, is exactly halfway between two
\* integers: none among the model's points (every value of HaversineMm is
\* more than 700 mm away from a half hundredth).
HaversineHalves == {}

Halfway(lat1, lon1, lat2, lon2) == <<lat1, lon1, lat2, lon2>> \in HaversineHalves

\* round(x, 2) of a numpy float, which is rint(x * 100) / 100, in hundredths.
\* mm is x truncated to 1e-6 km; half tells whether the float product x * 100
\* is exactly halfway between two integers (x is the half itself, as 0.125,
\* or within an ulp of it), and rint then gives the even one. Else the
\* product lies on the side of the half x lies on: at or above it when mm
\* ends in 5000 or more.
Round2(mm, half) ==
    LET q == mm \div 10000
        r == mm % 10000
    IN  IF half THEN (IF q % 2 = 0 THEN q ELSE q + 1)
        ELSE IF r >= 5000 THEN q + 1 ELSE q

\* Line 70-72: round(haversine(ref, row), 2).
RoundedDistance(lat1, lon1, lat2, lon2) ==
    Round2(haversine(lat1, lon1, lat2, lon2), Halfway(lat1, lon1, lat2, lon2))

\* ------------------------------------------------------------ Python values
\* A tuple is tagged as one, so that it can sit in a dict next to dicts and
\* be told from them (isinstance).
PyTuple(items) == [tuple |-> items]

IsTuple(value) == "tuple" \in DOMAIN value

\* ------------------------------------------------------------- Python dicts
\* A dict is the sequence of its <<key, value>> items in insertion order.
DictKeys(d) == [i \in 1..Len(d) |-> d[i][1]]

DictHas(d, k) == \E i \in 1..Len(d) : d[i][1] = k

DictGet(d, k) == d[CHOOSE i \in 1..Len(d) : d[i][1] = k][2]

\* d[k] = v: an existing key keeps its place, a new key goes last.
DictSet(d, k, v) ==
    IF DictHas(d, k)
    THEN [i \in 1..Len(d) |-> IF d[i][1] = k THEN <<k, v>> ELSE d[i]]
    ELSE Append(d, <<k, v>>)

\* ------------------------------------------------------------------- pandas
SeqToSet(s) == {s[i] : i \in 1..Len(s)}

\* Series.unique().tolist(): the distinct values in order of first appearance.
RECURSIVE Unique(_)
Unique(s) ==
    IF s = <<>> THEN <<>>
    ELSE LET front == Unique(SubSeq(s, 1, Len(s) - 1))
             last  == s[Len(s)]
         IN  IF last \in SeqToSet(front) THEN front ELSE Append(front, last)

\* group['<column>'] of a frame: the column's values, row by row.
Column(frame, name) == [i \in 1..Len(frame) |-> frame[i][name]]

\* apply() whose function does not return a scalar for the all-NaN row pandas
\* tries it on when the frame has no rows: the result is then a DataFrame.
ApplyDistanceAssumingRows(table, ref) ==
    IF Len(table) = 0
    THEN [kind |-> "DataFrame", values |-> <<>>]
    ELSE [kind   |-> "Series",
          values |-> [i \in 1..Len(table) |->
                        RoundedDistance(ref[1], ref[2],
                                        table[i].Latitude, table[i].Longitude)]]

\* self.antennas_df.apply(lambda row: round(haversine(...), 2), axis=1). On a
\* frame without rows pandas calls the lambda once on an all-NaN row to see
\* what it returns; it returns a scalar (NaN), so the result is a Series here
\* too, an empty one.
ApplyDistance(table, ref) ==
    [kind   |-> "Series",
     values |-> [i \in 1..Len(table) |->
                   RoundedDistance(ref[1], ref[2],
                                   table[i].Latitude, table[i].Longitude)]]

\* antennas_df_copy["distance_km"] = <Series>: the copy with the new column.
WithDistanceColumn(table, values) ==
    [i \in 1..Len(table) |-> ("distance_km" :> values[i]) @@ table[i]]

\* Line 68 without .copy(): the column lands in the table itself.
TableAliased(table, with_column) == with_column

\* What self.antennas_df holds once the column has been assigned: the column
\* goes to antennas_df_copy, a .copy() of the table, so the table is as before.
TableAfterAssign(table, with_column) == table

\* The orders a sort by distance can visit the rows `left` of the frame in:
\* any row of the least distance first, then the others in such an order.
RECURSIVE SortedOrders(_, _)
SortedOrders(frame, left) ==
    IF left = {} THEN {<<>>}
    ELSE LET least == {i \in left :
                          \A j \in left : frame[i].distance_km <= frame[j].distance_km}
         IN  UNION {{<<i>> \o rest : rest \in SortedOrders(frame, left \ {i})} :
                       i \in least}

\* sort_values(by="distance_km", ascending=True) with its default
\* kind='quicksort', which is not a stable sort: the frames it can return,
\* the rows ascending by distance, rows at one distance in any order.
SortValues(frame) ==
    {[i \in 1..Len(frame) |-> frame[order[i]]] :
        order \in SortedOrders(frame, 1..Len(frame))}

GroupKey(row) == <<row.distance_km, row.NomeEntidade>>

\* Keys by distance descending, then by name.
KeyBeforeFarthestFirst(k1, k2) ==
    \/ k1[1] > k2[1]
    \/ k1[1] = k2[1] /\ NameRank(k1[2]) < NameRank(k2[2])

\* The order groupby(sort=True) yields its keys in: by distance, then by name.
KeyBefore(k1, k2) ==
    \/ k1[1] < k2[1]
    \/ k1[1] = k2[1] /\ NameRank(k1[2]) < NameRank(k2[2])

RECURSIVE SortedKeys(_)
SortedKeys(keys) ==
    IF keys = {} THEN <<>>
    ELSE LET first == CHOOSE k \in keys : \A o \in keys \ {k} : KeyBefore(k, o)
         IN  <<first>> \o SortedKeys(keys \ {first})

\* frame.groupby(["distance_km", "NomeEntidade"]), as the list of group frames
\* the for loop iterates over: one per key, keys ascending, each with its rows
\* in the frame's order. groupby leaves out the rows with a missing value in
\* a key column (dropna=True): a row without NomeEntidade is in no group.
GroupBy(frame) ==
    LET keyed == SelectSeq(frame, LAMBDA r : r.NomeEntidade # NaN)
        keys  == SortedKeys({GroupKey(keyed[i]) : i \in 1..Len(keyed)})
    IN  [g \in 1..Len(keys) |-> SelectSeq(keyed, LAMBDA r : GroupKey(r) = keys[g])]

\* Lines 74 and 80 on a frame: the groupings that can come out, one for
\* every order the sort can leave the rows of a group in (the order of rows
\* of different groups does not outlive groupby).
SortAndGroup(frame) == {GroupBy(sorted) : sorted \in SortValues(frame)}

\* The frames line 74 is given: the copy of the table with the distances from
\* a reference point.
DistanceFrames(table) ==
    {WithDistanceColumn(table, ApplyDistance(table, ref).values) : ref \in RefPoints}

\* The sort of one build (numpy's quicksort on one machine) is a function: it
\* gives the same frame whenever it is given the same frame. What lines 74
\* and 80 can be on the frames of a table, one function per build.
Builds(table) ==
    LET frames == DistanceFrames(table)
    IN  {build \in [frames -> UNION {SortAndGroup(frame) : frame \in frames}] :
            \A frame \in frames : build[frame] \in SortAndGroup(frame)}

\* -------------------------------------------------------------------- state
VARIABLES
    antennas_df,          \* FileAnalyzer.antennas_df
    sorted_groups,        \* this build's lines 74 and 80: frame -> its groups
    pc,                   \* "idle", "loop" (inside the for), "done" (returned), "raised"
    num_antennas,         \* the call's arguments
    ref_lat_lon,
    grouped_data,         \* the call's locals
    idx,                  \* the for loop's position in grouped_data
    distances,
    available_companies,
    available_antennas,   \* at "done": the dict returned
    first_call,           \* history: <<num_antennas, ref_lat_lon, result>> of the first call
    stage,                \* history: what has returned since, see Returned
    calls,                \* concurrent calls: per thread, the call's frame
    locals,               \* concurrent calls: the objects lines 95-97 allocate
    points,               \* haversine: the two points it is applied to
    measured,             \* haversine: the applications made, with their results
    lat_lon,              \* analyze_lat_lon: its argument, <<>> before any call
    selection,            \* analyze_lat_lon: its local available_antennas
    antennas_lat_lon_height,
    profiles_to_plot,
    output_json,          \* per reference point: what output.json holds, see CreateOutputFile
    subplots,             \* what plot_topographic_profile has drawn, one per subplot
    trace,                \* the statements of analyze_lat_lon completed, in order
    failed,               \* the statement that raised, or "none"
    files,                \* the file system: the set of paths that exist
    zip_contents,         \* the file system: archive path -> the names of its members
    clock,                \* time.time(), in seconds
    waiting,              \* the frame of wait_for_download
    browser,              \* WebScraper.browser: "none", "open", "closed"
    awaited,              \* WebScraper.run: how many of its steps have completed
    run_state,            \* WebScraper.run: "idle", "running", "returned", "raised"
    filename              \* download_file_for_state: its local, <<>> or <<value>>

\* FileAnalyzer.__create_df_with_distance_column: the grouped copy it returns,
\* what it leaves in self.antennas_df, and whether it raised (a DataFrame
\* cannot be assigned to one column: ValueError, logged and re-raised).
create_df_with_distance_column(table, ref) ==
    LET applied == ApplyDistance(table, ref)
    IN  IF applied.kind # "Series"
        THEN [raised |-> TRUE, antennas_df |-> table, grouped |-> <<>>]
        ELSE LET with_column == WithDistanceColumn(table, applied.values)
             IN  [raised      |-> FALSE,
                  antennas_df |-> TableAfterAssign(table, with_column),
                  grouped     |-> sorted_groups[with_column]]

\* The state of the program outside one FileAnalyzer call.
call_vars ==
    <<pc, num_antennas, ref_lat_lon, grouped_data, idx, distances,
      available_companies, available_antennas, first_call, stage>>

thread_vars == <<calls, locals>>

haversine_vars == <<points, measured>>

controller_vars ==
    <<lat_lon, selection, antennas_lat_lon_height, profiles_to_plot, output_json,
      subplots, trace, failed>>

file_vars == <<files, zip_contents, clock, waiting>>

scraper_vars == <<browser, awaited, run_state, filename>>

elsewhere == <<thread_vars, haversine_vars, controller_vars, file_vars, scraper_vars>>

vars ==
    <<antennas_df, sorted_groups, pc, num_antennas, ref_lat_lon, grouped_data, idx,
      distances, available_companies, available_antennas, first_call, stage, elsewhere>>

\* --------------------------------------- get_antennas_to_create_profile
\* Lines 95-97: the three locals every call starts from.
\* (Were `distances` kept on the object instead, a call would start from the
\* previous call's set.)
KeptDistances == distances

NewDistances == {}

NewCompanies == {}

NewAntennas == <<>>

\* Line 101 with `and` for `or`.
KeepGatheringBoth(seen_distances, seen_companies, wanted) ==
    /\ Cardinality(seen_distances) < wanted
    /\ Cardinality(seen_companies) < MinOperators

\* Line 101 with `<=` for the first `<`.
KeepGatheringInclusive(seen_distances, seen_companies, wanted) ==
    \/ Cardinality(seen_distances) <= wanted
    \/ Cardinality(seen_companies) < MinOperators

\* Line 101: the group is absorbed while either count is below its minimum.
KeepGathering(seen_distances, seen_companies, wanted) ==
    \/ Cardinality(seen_distances) < wanted
    \/ Cardinality(seen_companies) < MinOperators

\* Lines 103-112: what is read off the group.
GroupDistance(group) == Unique(Column(group, "distance_km"))

GroupCompanyName(group) == Unique(Column(group, "NomeEntidade"))

\* Lines 105-106 with the two coordinates in the other order.
GroupLonLat(group) ==
    PyTuple(<<Unique(Column(group, "Longitude"))[1], Unique(Column(group, "Latitude"))[1]>>)

\* Lines 105-106, as the tuple line 123 stores.
GroupLatLon(group) ==
    PyTuple(<<Unique(Column(group, "Latitude"))[1], Unique(Column(group, "Longitude"))[1]>>)

\* Lines 107-112 with the columns listed row by row.
CompanyInfoEveryRow(group) ==
    [Freq       |-> Column(group, "FreqTxMHz"),
     Tecnologia |-> Column(group, "Tecnologia"),
     Azimute    |-> Column(group, "Azimute"),
     Altura     |-> Column(group, "AlturaAntena")]

CompanyInfo(group) ==
    [Freq       |-> Unique(Column(group, "FreqTxMHz")),
     Tecnologia |-> Unique(Column(group, "Tecnologia")),
     Azimute    |-> Unique(Column(group, "Azimute")),
     Altura     |-> Unique(Column(group, "AlturaAntena"))]

\* Lines 124-125: for name in company_name: bucket[name] = company_info.
RECURSIVE SetCompanies(_, _, _)
SetCompanies(bucket, names, info) ==
    IF names = <<>> THEN bucket
    ELSE SetCompanies(DictSet(bucket, names[1], info), Tail(names), info)

\* Lines 115-125: available_antennas after the group has been absorbed.
AntennasAfter(antennas, group) ==
    LET distance == GroupDistance(group)
    IN  IF distance = <<>> THEN antennas
        ELSE LET started == IF DictHas(antennas, distance[1]) THEN antennas
                            ELSE DictSet(antennas, distance[1], <<>>)
                 located == DictSet(DictGet(started, distance[1]), "lat/lon",
                                    GroupLatLon(group))
             IN  DictSet(started, distance[1],
                         SetCompanies(located, GroupCompanyName(group),
                                      CompanyInfo(group)))

\* Lines 115-116: distances after the group has been absorbed.
DistancesAfter(seen_distances, group) ==
    seen_distances \cup SeqToSet(GroupDistance(group))

\* Line 127.
CompaniesAfter(seen_companies, group) ==
    seen_companies \cup SeqToSet(GroupCompanyName(group))

\* What a call returns when no other call runs: the loop of lines 100-130
\* from fresh locals, over the groups of the table for the reference point.
RECURSIVE WalkAlone(_, _, _, _, _, _)
WalkAlone(groups, i, seen_distances, seen_companies, antennas, wanted) ==
    IF i > Len(groups) \/ ~KeepGathering(seen_distances, seen_companies, wanted)
    THEN antennas
    ELSE WalkAlone(groups, i + 1,
                   DistancesAfter(seen_distances, groups[i]),
                   CompaniesAfter(seen_companies, groups[i]),
                   AntennasAfter(antennas, groups[i]),
                   wanted)

SelectAlone(table, wanted, ref) ==
    WalkAlone(create_df_with_distance_column(table, ref).grouped, 1,
              NewDistances, NewCompanies, NewAntennas, wanted)

\* ------------------------------------------------------ concurrent calls
\* Two threads call get_antennas_to_create_profile on the one FileAnalyzer,
\* each for its own reference point.
Threads == {1, 2}

ThreadRefs == <<<<-2290000, -4320000>>, <<-2290900, -4323900>>>>

\* Lines 95-97 bound to attributes of the shared object: one set for all calls.
SharedSlot(thread) == 1

\* Lines 95-97: `distances`, `available_companies` and `available_antennas`
\* are names of the call's own frame, bound to objects the call creates.
Slot(thread) == thread

NoCall ==
    [pc |-> "idle", num_antennas |-> 0, ref_lat_lon |-> <<0, 0>>,
     grouped_data |-> <<>>, idx |-> 1, interleaved |-> FALSE]

NewLocals ==
    [distances |-> NewDistances, available_companies |-> NewCompanies,
     available_antennas |-> NewAntennas]

\* No thread has called.
ThreadsIdle ==
    /\ calls = [thread \in Threads |-> NoCall]
    /\ locals = [slot \in Threads |-> NewLocals]

\* ----------------------------------------------------------- FileManager
\* wait_for_download's defaults, line 29, in seconds.
DefaultTimeout == 6000

DefaultCheckInterval == 10

\* time.sleep(n) returns after n seconds or up to MaxOversleep seconds later.
MaxOversleep == 1

\* FileManager(download_path, 'csv_', '.csv'), web_scraper.py line 73.
DownloadPath == "files"

FilePrefix == "csv_"

FileSuffix == ".csv"

\* Names the download folder can hold while the download is awaited: the
\* archive, the browser's partial file of it, and another archive.
DownloadNames ==
    {"csv_licenciamento.zip", "csv_licenciamento.zip.crdownload", "planilha.zip"}

\* Names a file of the download folder can have that an earlier run or
\* another program left there, with the prefix and the suffix.
StaleNames == {"csv_antigo.csv"}

\* None, and the value a path is: os.path.join(directory, name).
None == <<>>

Join(directory, name) == <<directory, name>>

\* The archive the portal serves, and what an archive can hold: a file with
\* the prefix and the suffix, another file, or both.
Archive == Join(DownloadPath, "csv_licenciamento.zip")

ArchiveContents == {{"csv_licenciamento.csv"}, {"leiame.txt"},
                    {"csv_licenciamento.csv", "leiame.txt"}}

\* The download folder itself, an entry of the working directory (main.py
\* line 12: f'{os.getcwd()}/files').
DownloadFolder == Join(".", DownloadPath)

\* os.listdir(directory): the names, in no particular order.
ListDir(fs, directory) == {path[2] : path \in {q \in fs : q[1] = directory}}

StartsWith(name, prefix) ==
    Len(name) >= Len(prefix) /\ SubSeq(name, 1, Len(prefix)) = prefix

EndsWith(name, suffix) ==
    Len(name) >= Len(suffix)
    /\ SubSeq(name, Len(name) - Len(suffix) + 1, Len(name)) = suffix

\* Line 42: filename.startswith(self.file_prefix) and filename.endswith('.zip').
IsDownload(name) == StartsWith(name, FilePrefix) /\ EndsWith(name, ".zip")

\* Line 39: time.time() - start_time < timeout.
TimeLeft(now, start_time, timeout) == now - start_time < timeout

\* No wait_for_download call made; the clock at 0.
NotWaiting ==
    [state |-> "idle", start_time |-> 0, timeout |-> 0, check_interval |-> 0,
     result |-> None, seen |-> FALSE]

\* wait_for_download(timeout, check_interval) is called: line 38.
\* `seen` is history: whether a listing of the call showed a name with the
\* prefix and the ending '.zip'.
WaitForDownload(timeout, check_interval) ==
    /\ waiting.state = "idle"
    /\ waiting' = [state |-> "test", start_time |-> clock, timeout |-> timeout,
                   check_interval |-> check_interval, result |-> None,
                   seen |-> FALSE]
    /\ UNCHANGED <<files, zip_contents, clock>>

\* Lines 39-43, the loop's test holds: the folder is listed; the first name
\* of the listing that line 42 accepts is returned, joined to the folder.
\* os.listdir raises FileNotFoundError when the folder does not exist, and
\* nothing in wait_for_download catches it.
WaitListing ==
    /\ waiting.state = "test"
    /\ TimeLeft(clock, waiting.start_time, waiting.timeout)
    /\ IF DownloadFolder \notin files
       THEN waiting' = [waiting EXCEPT !.state = "raised"]
       ELSE LET listing == ListDir(files, DownloadPath)
                found   == {name \in listing : IsDownload(name)}
                shown   == \E name \in listing :
                               StartsWith(name, FilePrefix) /\ EndsWith(name, ".zip")
            IN  \/ /\ found = {}
                   /\ waiting' = [waiting EXCEPT !.state = "sleep",
                                                 !.seen = waiting.seen \/ shown]
                \/ \E name \in found :
                      waiting' = [waiting EXCEPT !.state = "returned",
                                                 !.result = Join(DownloadPath, name),
                                                 !.seen = waiting.seen \/ shown]
    /\ UNCHANGED <<files, zip_contents, clock>>

\* Line 44: time.sleep(check_interval).
WaitSleep ==
    /\ waiting.state = "sleep"
    /\ \E late \in 0..MaxOversleep :
          clock' = clock + waiting.check_interval + late
    /\ waiting' = [waiting EXCEPT !.state = "test"]
    /\ UNCHANGED <<files, zip_contents>>

\* Lines 39 and 45, the loop's test fails: None is returned.
WaitTimeout ==
    /\ waiting.state = "test"
    /\ ~TimeLeft(clock, waiting.start_time, waiting.timeout)
    /\ waiting' = [waiting EXCEPT !.state = "returned", !.result = None]
    /\ UNCHANGED <<files, zip_contents, clock>>

\* The browser and other programs write and remove files of the download
\* folder while the download is awaited, and the folder itself: a file is
\* written into the folder, which is made if it is not there.
FileAppears(name) ==
    /\ waiting.state \in {"test", "sleep"}
    /\ Join(DownloadPath, name) \notin files
    /\ files' = files \cup {DownloadFolder, Join(DownloadPath, name)}
    /\ UNCHANGED <<zip_contents, clock, waiting>>

\* The empty folder is made, or removed.
FolderAppears ==
    /\ waiting.state \in {"test", "sleep"}
    /\ DownloadFolder \notin files
    /\ files' = files \cup {DownloadFolder}
    /\ UNCHANGED <<zip_contents, clock, waiting>>

FolderVanishes ==
    /\ waiting.state \in {"test", "sleep"}
    /\ DownloadFolder \in files
    /\ ListDir(files, DownloadPath) = {}
    /\ files' = files \ {DownloadFolder}
    /\ UNCHANGED <<zip_contents, clock, waiting>>

FileVanishes(name) ==
    /\ waiting.state \in {"test", "sleep"}
    /\ Join(DownloadPath, name) \in files
    /\ files' = files \ {Join(DownloadPath, name)}
    /\ UNCHANGED <<zip_contents, clock, waiting>>

\* zip_ref.namelist(): the files inside the archive at the path.
ZipMembers(path) == zip_contents[path]

\* unzip_and_rename(zip_file_path, new_name), lines 55-75: the file systems
\* it can leave. All of it is inside one try whose except clause swallows
\* the exception and keeps what was done before it:
\*   line 57, ZipFile raises for None, for a path that does not exist and
\*     for a file that is no archive: nothing is done;
\*   line 58, extractall raises (a member's data is corrupt, the disk is
\*     full): the members written by then are there;
\*   lines 61-66, os.listdir or os.rename raises (the new name is a
\*     directory, no permission): the members are there under their names;
\*   line 71, os.remove raises: the first name of the listing with the prefix
\*     and the suffix has been renamed, the archive is still there;
\*   nothing raises: renamed, and the archive removed.
\* The listing is of the whole folder, in no particular order: the file
\* renamed is an extracted one or one that was there before; when no name of
\* the listing has the prefix and the suffix nothing is renamed, and the
\* archive is removed all the same.
UnzipAndRename(fs, zip_file_path, new_name) ==
    IF zip_file_path = None \/ zip_file_path \notin fs
    THEN {fs}
    ELSE LET written(members) == fs \cup {Join(DownloadPath, member) : member \in members}
             partly == {written(members) : members \in SUBSET ZipMembers(zip_file_path)}
             extracted == written(ZipMembers(zip_file_path))
             candidates == {name \in ListDir(extracted, DownloadPath) :
                               StartsWith(name, FilePrefix) /\ EndsWith(name, FileSuffix)}
             renamed == IF candidates = {} THEN {extracted}
                        ELSE {(extracted \ {Join(DownloadPath, name)})
                                 \cup {Join(DownloadPath, new_name)} : name \in candidates}
         IN  partly \cup renamed \cup {after \ {zip_file_path} : after \in renamed}

\* Lines 55-75 without the except clause: the exception of ZipFile leaves
\* the call.
PropagatesFromZipFile(fs, zip_file_path, new_name) ==
    zip_file_path = None \/ zip_file_path \notin fs

\* Lines 74-75: whether an exception leaves unzip_and_rename. All of the
\* body is inside the try, and `except Exception` catches what it raises.
Propagates(fs, zip_file_path, new_name) == FALSE

\* ------------------------------------------------------------- WebScraper
\* The steps of run, lines 108-109, with download_file_for_state's, lines
\* 75-98, in program order.
ScraperSteps ==
    <<"launch", "newPage", "setDownloadBehavior", "goto", "waitForSelector filter",
      "click filter", "waitForSelector state", "select", "waitFor", "click download",
      "wait_for_download", "unzip_and_rename", "close_browser">>

\* The steps awaited on the page, each of which pyppeteer can fail.
PageSteps ==
    {"newPage", "setDownloadBehavior", "goto", "waitForSelector filter",
     "click filter", "waitForSelector state", "select", "waitFor", "click download"}

\* WebScraper.__init__, lines 24-29, and an empty clock.
NoDownload ==
    /\ files = {}
    /\ zip_contents = <<>>
    /\ clock = 0
    /\ waiting = NotWaiting
    /\ browser = "none"
    /\ awaited = 0
    /\ run_state = "idle"
    /\ filename = None

OutsideScraper ==
    <<antennas_df, sorted_groups, call_vars, thread_vars, haversine_vars, controller_vars>>

ScraperAt(step) ==
    /\ run_state = "running"
    /\ ScraperSteps[awaited + 1] = step

\* run(state) is called, line 108; download_file_for_state builds its
\* FileManager, line 73.
Run ==
    /\ run_state = "idle"
    /\ run_state' = "running"
    /\ UNCHANGED <<browser, awaited, filename, file_vars, OutsideScraper>>

\* Line 75, __create_browser: launch gives a browser, or raises.
Launch ==
    /\ ScraperAt("launch")
    /\ \/ /\ browser' = "open"
          /\ awaited' = awaited + 1
          /\ UNCHANGED run_state
       \/ /\ run_state' = "raised"
          /\ UNCHANGED <<browser, awaited>>
    /\ UNCHANGED <<filename, file_vars, OutsideScraper>>

\* Lines 76-94, one awaited step on the page: it completes, or it raises (a
\* navigation or selector timeout, a missing element, a lost connection) and
\* the exception leaves download_file_for_state and run.
Await(step) ==
    /\ ScraperAt(step)
    /\ \/ /\ awaited' = awaited + 1
          /\ UNCHANGED run_state
       \/ /\ run_state' = "raised"
          /\ UNCHANGED awaited
    /\ UNCHANGED <<browser, filename, file_vars, OutsideScraper>>

\* Line 97: file_manager.wait_for_download() is called, with its defaults.
StartWait ==
    /\ ScraperAt("wait_for_download")
    /\ WaitForDownload(DefaultTimeout, DefaultCheckInterval)
    /\ UNCHANGED <<scraper_vars, OutsideScraper>>

\* Line 97: filename = the value wait_for_download returned.
Downloaded ==
    /\ ScraperAt("wait_for_download")
    /\ waiting.state = "returned"
    /\ filename' = waiting.result
    /\ awaited' = awaited + 1
    /\ UNCHANGED <<browser, run_state, file_vars, OutsideScraper>>

\* Line 97: the exception of os.listdir leaves wait_for_download,
\* download_file_for_state and run.
DownloadRaised ==
    /\ ScraperAt("wait_for_download")
    /\ waiting.state = "raised"
    /\ run_state' = "raised"
    /\ UNCHANGED <<browser, awaited, filename, file_vars, OutsideScraper>>

\* Line 98: file_manager.unzip_and_rename(filename, f'antennas-{state}.csv').
Unzip ==
    /\ ScraperAt("unzip_and_rename")
    /\ files' \in UnzipAndRename(files, filename, "antennas-RJ.csv")
    /\ IF Propagates(files, filename, "antennas-RJ.csv")
       THEN run_state' = "raised" /\ UNCHANGED awaited
       ELSE awaited' = awaited + 1 /\ UNCHANGED run_state
    /\ UNCHANGED <<browser, filename, zip_contents, clock, waiting, OutsideScraper>>

\* Line 109, close_browser (line 45): the awaited self.browser.close()
\* completes and run returns, or it raises (a lost connection, a profile
\* folder that cannot be removed) and the exception leaves run with
\* self.browser as it was.
CloseBrowser ==
    /\ ScraperAt("close_browser")
    /\ \/ /\ browser' = "closed"
          /\ awaited' = awaited + 1
          /\ run_state' = "returned"
       \/ /\ run_state' = "raised"
          /\ UNCHANGED <<browser, awaited>>
    /\ UNCHANGED <<filename, file_vars, OutsideScraper>>

\* close_browser() called on its own on a WebScraper that has launched no
\* browser: self.browser is None (line 27) and line 45 raises AttributeError,
\* which ends the caller.
CloseBrowserAlone ==
    /\ run_state = "idle"
    /\ browser = "none"
    /\ run_state' = "raised"
    /\ UNCHANGED <<browser, awaited, filename, file_vars, OutsideScraper>>

\* The steps of the wait, and of the folder's other writers.
WaitStep ==
    /\ \/ WaitListing
       \/ WaitSleep
       \/ WaitTimeout
    /\ UNCHANGED <<scraper_vars, OutsideScraper>>

FolderStep ==
    /\ \/ \E name \in DownloadNames : FileAppears(name) \/ FileVanishes(name)
       \/ FolderAppears
       \/ FolderVanishes
    /\ UNCHANGED <<scraper_vars, OutsideScraper>>

\* wait_for_download called on its own, with a timeout of the caller's.
Timeouts == {0, 25, DefaultTimeout}

CallWait(timeout, check_interval) ==
    /\ run_state = "idle"
    /\ WaitForDownload(timeout, check_interval)
    /\ UNCHANGED <<scraper_vars, OutsideScraper>>

NextDownload ==
    \/ \E timeout \in Timeouts : CallWait(timeout, DefaultCheckInterval)
    \/ WaitStep
    \/ FolderStep

NextScraper ==
    \/ Run
    \/ Launch
    \/ \E step \in PageSteps : Await(step)
    \/ StartWait
    \/ WaitStep
    \/ FolderStep
    \/ Downloaded
    \/ DownloadRaised
    \/ Unzip
    \/ CloseBrowser
    \/ CloseBrowserAlone

\* ------------------------------------------------------- PointController
\* The count analyze_lat_lon asks the selector for, line 82.
ControllerAntennas == 4

\* json.dumps writes a float key as repr(float): the distance, a number of
\* hundredths here, with one or two decimals.
FloatRepr(hundredths) ==
    LET whole == hundredths \div 100
        frac  == hundredths % 100
    IN  ToString(whole) \o "." \o
        (IF frac % 10 = 0 THEN ToString(frac \div 10)
         ELSE ToString(frac \div 10) \o ToString(frac % 10))

\* json.dumps of a value of a bucket: a tuple becomes an array, a dict of
\* lists of strings an object of arrays of strings.
JsonValue(value) == IF IsTuple(value) THEN [array |-> value.tuple] ELSE value

\* json.dumps(data, indent=4), line 49: the JSON object as the sequence of its
\* members, an object keyed by the stringified distance, each value an object.
JsonDumps(data) ==
    [i \in 1..Len(data) |->
        <<FloatRepr(data[i][1]),
          [j \in 1..Len(data[i][2]) |->
              <<data[i][2][j][1], JsonValue(data[i][2][j][2])>>]>>]

\* float(text) on the heights of the model's rows.
Float == ("30" :> 30) @@ ("45" :> 45)

\* Line 63: isinstance(data, dict) and 'Altura' in data.
IsBundle(data) == ~IsTuple(data) /\ "Altura" \in DOMAIN data

\* Lines 61-65: the dict provider -> list of float heights.
Heights(value) ==
    LET bundles == SelectSeq(value, LAMBDA item : IsBundle(item[2]))
    IN  [j \in 1..Len(bundles) |->
            <<bundles[j][1],
              [k \in 1..Len(bundles[j][2].Altura) |-> Float[bundles[j][2].Altura[k]]]>>]

\* extract_antennas_from_data_dict, lines 58-69.
extract_antennas_from_data_dict(data_dict) ==
    [i \in 1..Len(data_dict) |->
        PyTuple(<<DictGet(data_dict[i][2], "lat/lon"), Heights(data_dict[i][2])>>)]

\* Line 86: antennas_lat_lon = [ant[0] for ant in antennas_lat_lon_height].
AntennasLatLon(antennas) == [i \in 1..Len(antennas) |-> antennas[i].tuple[1]]

\* elevation_along_path(client, [ref, antenna], samples=50), line 61: the
\* samples of the service for that path, named by the path.
ElevationAlongPath(ref, antenna) == [path |-> <<ref, antenna>>]

\* Line 89 of plot_topographic_profile pairing every profile with the first antenna.
ZipWithFirst(profiles, antennas) ==
    [i \in 1..Len(profiles) |->
        [ite_ |-> i - 1, profile |-> profiles[i],
         lat_lon |-> antennas[1].tuple[1], heights |-> antennas[1].tuple[2]]]

\* Lines 89-120: enumerate(zip(profiles_to_plot, antennas)), one subplot per
\* pair: the profile drawn, the location titled, the heights lined.
Zip(profiles, antennas) ==
    LET n == IF Len(profiles) < Len(antennas) THEN Len(profiles) ELSE Len(antennas)
    IN  [i \in 1..n |->
            [ite_ |-> i - 1, profile |-> profiles[i],
             lat_lon |-> antennas[i].tuple[1], heights |-> antennas[i].tuple[2]]]

\* Lines 109-119: the first n height lines of a subplot, in the order
\* heights.items() and the lists give them, under their operators.
RECURSIVE DrawnHeights(_, _)
DrawnHeights(heights, n) ==
    IF n = 0 \/ heights = <<>> THEN <<>>
    ELSE IF Len(heights[1][2]) >= n
         THEN <<(<<heights[1][1], SubSeq(heights[1][2], 1, n)>>)>>
         ELSE <<heights[1]>> \o DrawnHeights(Tail(heights), n - Len(heights[1][2]))

\* The number of height lines of a subplot.
RECURSIVE HeightLines(_)
HeightLines(heights) ==
    IF heights = <<>> THEN 0 ELSE Len(heights[1][2]) + HeightLines(Tail(heights))

\* Lines 85-133 left by an exception: plt.subplots raised and nothing is
\* drawn; or a pass of the loop raised (ax.plot at line 105 for an answer
\* without samples, elevations[-1] at line 108, a height line at line 112,
\* the title at line 122) after the passes before it, with nothing of its
\* own subplot or with its profile and some of its height lines, untitled;
\* or savefig raised after every pass.
Interrupted(profiles, antennas) ==
    LET whole == Zip(profiles, antennas)
    IN  {SubSeq(whole, 1, k) : k \in 0..Len(whole)}
        \cup UNION {{Append(SubSeq(whole, 1, k - 1),
                            [whole[k] EXCEPT !.lat_lon = <<>>,
                                             !.heights = DrawnHeights(@, n)]) :
                        n \in 0..HeightLines(whole[k].heights)} : k \in 1..Len(whole)}

\* Lines 82-90 with the output file written last.
StatementsFileLast == <<"select", "extract", "map", "elevation", "profile", "write">>

\* The statements of analyze_lat_lon, lines 82-90, in program order.
Statements == <<"select", "write", "extract", "map", "elevation", "profile">>

\* No analyze_lat_lon call made yet, no output written.
NotAnalyzing ==
    /\ lat_lon = <<>>
    /\ selection = <<>>
    /\ antennas_lat_lon_height = <<>>
    /\ profiles_to_plot = <<>>
    /\ output_json = [ref \in RefPoints |-> <<>>]
    /\ subplots = <<>>
    /\ trace = <<>>
    /\ failed = "none"

\* The statement the call is at.
At(statement) ==
    /\ lat_lon # <<>>
    /\ failed = "none"
    /\ Len(trace) < Len(Statements)
    /\ Statements[Len(trace) + 1] = statement

Completed(statement) == trace' = Append(trace, statement)

OutsideController ==
    <<antennas_df, sorted_groups, call_vars, thread_vars, haversine_vars, file_vars, scraper_vars>>

\* analyze_lat_lon(lat_lon) is called, lines 79-80: by analyze.py, for one
\* reference point after the other, as long as no call has raised.
Analyze(ref) ==
    /\ failed = "none"
    /\ lat_lon = <<>> \/ Len(trace) = Len(Statements)
    /\ lat_lon' = ref
    /\ selection' = <<>>
    /\ antennas_lat_lon_height' = <<>>
    /\ profiles_to_plot' = <<>>
    /\ subplots' = <<>>
    /\ trace' = <<>>
    /\ UNCHANGED <<output_json, failed, OutsideController>>

\* Line 82: get_antennas_to_create_profile(4, ref_lat_lon=lat_lon).
SelectAntennas ==
    /\ At("select")
    /\ IF create_df_with_distance_column(antennas_df, lat_lon).raised
       THEN failed' = "select" /\ UNCHANGED <<selection, trace>>
       ELSE /\ selection' = SelectAlone(antennas_df, ControllerAntennas, lat_lon)
            /\ Completed("select")
            /\ UNCHANGED failed
    /\ UNCHANGED <<lat_lon, antennas_lat_lon_height, profiles_to_plot, output_json,
                   subplots, OutsideController>>

\* Line 84: __create_output_file(subfolder_path, available_antennas), lines
\* 44-49: makedirs, open and write, which the environment lets succeed or
\* not. When makedirs or open raises (a file stands where the subfolder
\* should be, no permission) the file is as it was; when the write fails
\* after open(.., 'w') the file is cut short and holds no JSON object. The
\* exception leaves analyze_lat_lon.
\* output_json[ref] is <<>> (no file, or one cut short) or <<the object>>.
CreateOutputFile ==
    /\ At("write")
    /\ \/ /\ output_json' = [output_json EXCEPT ![lat_lon] = <<JsonDumps(selection)>>]
          /\ Completed("write")
          /\ UNCHANGED failed
       \/ /\ output_json' \in {output_json, [output_json EXCEPT ![lat_lon] = <<>>]}
          /\ failed' = "write"
          /\ UNCHANGED trace
    /\ UNCHANGED <<lat_lon, selection, antennas_lat_lon_height, profiles_to_plot,
                   subplots, OutsideController>>

\* Lines 85-86.
ExtractAntennas ==
    /\ At("extract")
    /\ antennas_lat_lon_height' = extract_antennas_from_data_dict(selection)
    /\ Completed("extract")
    /\ UNCHANGED <<lat_lon, selection, profiles_to_plot, output_json, subplots,
                   failed, OutsideController>>

\* Line 88, plot_points_on_map: antenna[0] and antenna[1] of every location
\* (a KeyError on a dict), then the figure and write_image, which the
\* environment lets succeed or not.
PlotPointsOnMap ==
    /\ At("map")
    /\ \/ /\ \A i \in 1..Len(antennas_lat_lon_height) :
                IsTuple(AntennasLatLon(antennas_lat_lon_height)[i])
          /\ Completed("map")
          /\ UNCHANGED failed
       \/ /\ failed' = "map"
          /\ UNCHANGED trace
    /\ UNCHANGED <<lat_lon, selection, antennas_lat_lon_height, profiles_to_plot,
                   output_json, subplots, OutsideController>>

\* Line 89, get_topographic_profile, one pass of its loop (lines 59-63): the
\* request for the next antenna is answered, or raises.
RequestElevation ==
    /\ At("elevation")
    /\ Len(profiles_to_plot) < Len(antennas_lat_lon_height)
    /\ \/ /\ profiles_to_plot' =
                Append(profiles_to_plot,
                       ElevationAlongPath(lat_lon,
                           AntennasLatLon(antennas_lat_lon_height)[Len(profiles_to_plot) + 1]))
          /\ UNCHANGED failed
       \/ /\ failed' = "elevation"
          /\ UNCHANGED profiles_to_plot
    /\ UNCHANGED <<lat_lon, selection, antennas_lat_lon_height, output_json, subplots,
                   trace, OutsideController>>

\* get_topographic_profile returns, line 65: every antenna has been asked for.
ReturnProfiles ==
    /\ At("elevation")
    /\ Len(profiles_to_plot) = Len(antennas_lat_lon_height)
    /\ Completed("elevation")
    /\ UNCHANGED <<lat_lon, selection, antennas_lat_lon_height, profiles_to_plot,
                   output_json, subplots, failed, OutsideController>>

\* Line 90, plot_topographic_profile: plt.subplots(rows, 2) raises for no
\* rows (line 85); else one subplot per (profile, antenna) pair, and savefig.
\* The figure, every pass of the loop and savefig are let succeed or not by
\* the environment and by the answers of the elevation service; the
\* exception leaves analyze_lat_lon with what was drawn before it.
PlotTopographicProfile ==
    /\ At("profile")
    /\ \/ /\ Len(profiles_to_plot) > 0
          /\ subplots' = Zip(profiles_to_plot, antennas_lat_lon_height)
          /\ Completed("profile")
          /\ UNCHANGED failed
       \/ /\ failed' = "profile"
          /\ subplots' \in IF Len(profiles_to_plot) > 0
                           THEN Interrupted(profiles_to_plot, antennas_lat_lon_height)
                           ELSE {subplots}
          /\ UNCHANGED trace
    /\ UNCHANGED <<lat_lon, selection, antennas_lat_lon_height, profiles_to_plot,
                   output_json, OutsideController>>

NextController ==
    \/ \E ref \in RefPoints : Analyze(ref)
    \/ SelectAntennas
    \/ CreateOutputFile
    \/ ExtractAntennas
    \/ PlotPointsOnMap
    \/ RequestElevation
    \/ ReturnProfiles
    \/ PlotTopographicProfile

\* ------------------------------------------------------------ haversine
\* haversine applied to two points, in either order and to each with itself.
Points == RefPoints \cup Sites

Unmeasured ==
    /\ points = <<>>
    /\ measured = {}

\* distance_utils.haversine(from, to), lines 11-35.
Measure(from, to) ==
    /\ points # <<>>
    /\ \A m \in measured : ~(m.from = from /\ m.to = to)
    /\ measured' = measured \cup
           {[from |-> from, to |-> to,
             distance_mm |-> haversine(from[1], from[2], to[1], to[2])]}
    /\ UNCHANGED <<antennas_df, sorted_groups, call_vars, thread_vars, points, controller_vars,
                   file_vars, scraper_vars>>

\* The state FileAnalyzer.__init__ leaves, no call made yet, on any build.
Constructed ==
    /\ sorted_groups \in Builds(antennas_df)
    /\ pc = "idle"
    /\ num_antennas = 0
    /\ ref_lat_lon = <<0, 0>>
    /\ grouped_data = <<>>
    /\ idx = 1
    /\ distances = {}
    /\ available_companies = {}
    /\ available_antennas = <<>>
    /\ first_call = <<>>
    /\ ThreadsIdle
    /\ Unmeasured
    /\ NotAnalyzing
    /\ NoDownload

\* The tables of the four sites in which every row names its operator, the
\* tables of the three nearest sites with rows that do not, and the
\* scenario's.
Init ==
    /\ antennas_df \in NamedTables(Sites) \cup Tables(NearSites) \cup ScenarioTables
    /\ Constructed
    /\ stage = "off"

\* The history of returned calls. "off": not kept. "none": no call has
\* returned. "first": only the first call has. "other": the last call to
\* return had other arguments than the first. "again": the last call to return
\* had the first call's arguments, as had every call since the first.
\* "again_after_other": the last call to return had the first call's
\* arguments, and a call with other arguments returned in between.
Returned(result) ==
    LET same == /\ first_call # <<>>
                /\ first_call[1] = num_antennas
                /\ first_call[2] = ref_lat_lon
    IN  /\ first_call' = IF stage = "none" THEN <<num_antennas, ref_lat_lon, result>>
                         ELSE first_call
        /\ stage' = CASE stage = "off" -> "off"
                      [] stage = "none" -> "first"
                      [] stage \in {"first", "again"} -> IF same THEN "again" ELSE "other"
                      [] OTHER -> IF same THEN "again_after_other" ELSE "other"

\* get_antennas_to_create_profile(num_antennas, ref_lat_lon), lines 92-97: the
\* grouped frame is built and the locals are set; or the call raises.
Call(wanted, ref) ==
    /\ pc \in {"idle", "done", "raised"}
    /\ LET created == create_df_with_distance_column(antennas_df, ref)
       IN  /\ antennas_df' = created.antennas_df
           /\ grouped_data' = created.grouped
           /\ pc' = IF created.raised THEN "raised" ELSE "loop"
    /\ num_antennas' = wanted
    /\ ref_lat_lon' = ref
    /\ idx' = 1
    /\ distances' = NewDistances
    /\ available_companies' = NewCompanies
    /\ available_antennas' = NewAntennas
    /\ UNCHANGED <<sorted_groups, first_call, stage, elsewhere>>

\* One iteration of the for loop whose test at line 101 holds: lines 102-127.
Absorb ==
    /\ pc = "loop"
    /\ idx <= Len(grouped_data)
    /\ KeepGathering(distances, available_companies, num_antennas)
    /\ LET group == grouped_data[idx]
       IN  /\ available_antennas' = AntennasAfter(available_antennas, group)
           /\ distances' = DistancesAfter(distances, group)
           /\ available_companies' = CompaniesAfter(available_companies, group)
    /\ idx' = idx + 1
    /\ UNCHANGED <<antennas_df, sorted_groups, pc, num_antennas, ref_lat_lon, grouped_data,
                   first_call, stage, elsewhere>>

\* The iteration whose test fails: lines 128-130, break, then the return.
Break ==
    /\ pc = "loop"
    /\ idx <= Len(grouped_data)
    /\ ~KeepGathering(distances, available_companies, num_antennas)
    /\ pc' = "done"
    /\ Returned(available_antennas)
    /\ UNCHANGED <<antennas_df, sorted_groups, num_antennas, ref_lat_lon, grouped_data, idx,
                   distances, available_companies, available_antennas, elsewhere>>

\* The for loop runs out of groups: the return at line 136.
Exhaust ==
    /\ pc = "loop"
    /\ idx > Len(grouped_data)
    /\ pc' = "done"
    /\ Returned(available_antennas)
    /\ UNCHANGED <<antennas_df, sorted_groups, num_antennas, ref_lat_lon, grouped_data, idx,
                   distances, available_companies, available_antennas, elsewhere>>

Next ==
    \/ \E wanted \in 0..MaxNumAntennas, ref \in RefPoints : Call(wanted, ref)
    \/ Absorb
    \/ Break
    \/ Exhaust

Spec == Init /\ [][Next]_vars

\* The same program with the history of returned calls kept, on the tables
\* of two sites in which every row names its operator.
InitRepeat ==
    /\ antennas_df \in NamedTables(RepeatSites)
    /\ Constructed
    /\ stage = "none"

SpecRepeat == InitRepeat /\ [][Next]_vars

\* The same program called from two threads. A step of a call is one
\* iteration of its loop; the steps of the two calls interleave freely.
\* `interleaved` is history: the other call was inside its loop, past its
\* first group, when this call took a step.
Overlaps(thread) ==
    \E other \in Threads \ {thread} :
        calls[other].pc = "loop" /\ calls[other].idx > 1

\* Lines 92-97 in a thread.
ThreadCall(thread, wanted) ==
    /\ calls[thread].pc \in {"idle", "done", "raised"}
    /\ LET created == create_df_with_distance_column(antennas_df, ThreadRefs[thread])
       IN  /\ antennas_df' = created.antennas_df
           /\ calls' = [calls EXCEPT ![thread] =
                  [pc |-> IF created.raised THEN "raised" ELSE "loop",
                   num_antennas |-> wanted,
                   ref_lat_lon |-> ThreadRefs[thread],
                   grouped_data |-> created.grouped,
                   idx |-> 1,
                   interleaved |-> FALSE]]
    /\ locals' = [locals EXCEPT ![Slot(thread)] = NewLocals]
    /\ UNCHANGED <<sorted_groups, call_vars, haversine_vars, controller_vars, file_vars,
                   scraper_vars>>

\* Lines 101-127 in a thread.
ThreadAbsorb(thread) ==
    LET call == calls[thread]
        mine == locals[Slot(thread)]
    IN  /\ call.pc = "loop"
        /\ call.idx <= Len(call.grouped_data)
        /\ KeepGathering(mine.distances, mine.available_companies, call.num_antennas)
        /\ LET group == call.grouped_data[call.idx]
           IN  locals' = [locals EXCEPT ![Slot(thread)] =
                   [distances |-> DistancesAfter(mine.distances, group),
                    available_companies |-> CompaniesAfter(mine.available_companies, group),
                    available_antennas |-> AntennasAfter(mine.available_antennas, group)]]
        /\ calls' = [calls EXCEPT ![thread].idx = call.idx + 1,
                                  ![thread].interleaved = call.interleaved \/ Overlaps(thread)]
        /\ UNCHANGED <<antennas_df, sorted_groups, call_vars, haversine_vars, controller_vars,
                       file_vars, scraper_vars>>

\* Lines 128-130 and 136 in a thread.
ThreadBreak(thread) ==
    LET call == calls[thread]
        mine == locals[Slot(thread)]
    IN  /\ call.pc = "loop"
        /\ call.idx <= Len(call.grouped_data)
        /\ ~KeepGathering(mine.distances, mine.available_companies, call.num_antennas)
        /\ calls' = [calls EXCEPT ![thread].pc = "done",
                                  ![thread].interleaved = call.interleaved \/ Overlaps(thread)]
        /\ UNCHANGED <<antennas_df, sorted_groups, call_vars, locals, haversine_vars, controller_vars,
                       file_vars, scraper_vars>>

\* Line 136 in a thread, the groups run out.
ThreadExhaust(thread) ==
    LET call == calls[thread]
    IN  /\ call.pc = "loop"
        /\ call.idx > Len(call.grouped_data)
        /\ calls' = [calls EXCEPT ![thread].pc = "done",
                                  ![thread].interleaved = call.interleaved \/ Overlaps(thread)]
        /\ UNCHANGED <<antennas_df, sorted_groups, call_vars, locals, haversine_vars, controller_vars,
                       file_vars, scraper_vars>>

NextConcurrent ==
    \/ \E thread \in Threads, wanted \in 0..MaxNumAntennas : ThreadCall(thread, wanted)
    \/ \E thread \in Threads : ThreadAbsorb(thread)
    \/ \E thread \in Threads : ThreadBreak(thread)
    \/ \E thread \in Threads : ThreadExhaust(thread)

InitConcurrent ==
    /\ antennas_df \in NamedTables(RepeatSites)
    /\ Constructed
    /\ stage = "off"

SpecConcurrent == InitConcurrent /\ [][NextConcurrent]_vars

\* analyze.py: the controller over the tables of two sites and the scenario's.
InitController ==
    /\ antennas_df \in Tables(RepeatSites) \cup ScenarioTables
    /\ Constructed
    /\ stage = "off"

SpecController == InitController /\ [][NextController]_vars

\* The same with operator names that are not validated.
InitUnvalidated ==
    /\ antennas_df \in UnvalidatedTables
    /\ Constructed
    /\ stage = "off"

SpecUnvalidated == InitUnvalidated /\ [][NextController]_vars

\* main.py: one run of the scraper, the download folder holding any of the
\* names beforehand, or not there; the archive holding any of the contents.
InitScraper ==
    /\ antennas_df = <<>>
    /\ sorted_groups \in Builds(antennas_df)
    /\ pc = "idle"
    /\ num_antennas = 0
    /\ ref_lat_lon = <<0, 0>>
    /\ grouped_data = <<>>
    /\ idx = 1
    /\ distances = {}
    /\ available_companies = {}
    /\ available_antennas = <<>>
    /\ first_call = <<>>
    /\ stage = "off"
    /\ ThreadsIdle
    /\ Unmeasured
    /\ NotAnalyzing
    /\ files \in {{}} \cup {{DownloadFolder} \cup held :
                          held \in SUBSET {Join(DownloadPath, name) :
                                              name \in DownloadNames \cup StaleNames}}
    /\ zip_contents \in [{Archive} -> ArchiveContents]
    /\ clock = 0
    /\ waiting = NotWaiting
    /\ browser = "none"
    /\ awaited = 0
    /\ run_state = "idle"
    /\ filename = None

SpecScraper == InitScraper /\ [][NextScraper]_vars

\* wait_for_download alone. The thread that runs it keeps running: a step
\* of the loop that can be taken is taken, whatever the folder's other
\* writers do.
SpecDownload == InitScraper /\ [][NextDownload]_vars /\ WF_vars(WaitStep)

\* haversine alone, on every pair of the model's points.
InitHaversine ==
    /\ antennas_df = <<>>
    /\ sorted_groups \in Builds(antennas_df)
    /\ pc = "idle"
    /\ num_antennas = 0
    /\ ref_lat_lon = <<0, 0>>
    /\ grouped_data = <<>>
    /\ idx = 1
    /\ distances = {}
    /\ available_companies = {}
    /\ available_antennas = <<>>
    /\ first_call = <<>>
    /\ stage = "off"
    /\ ThreadsIdle
    /\ NotAnalyzing
    /\ NoDownload
    /\ points \in Points \X Points
    /\ measured = {}

NextHaversine ==
    \E from \in SeqToSet(points), to \in SeqToSet(points) : Measure(from, to)

SpecHaversine == InitHaversine /\ [][NextHaversine]_vars

\* ------------------------------------------------- vocabulary of the claims
\* The data set as the claims speak of it, computed from the table and the
\* reference point directly, not from the walk.
RowDistance(row, ref) ==
    RoundedDistance(ref[1], ref[2], row.Latitude, row.Longitude)

\* The distinct rounded distances of the data set.
DataDistances ==
    {RowDistance(antennas_df[i], ref_lat_lon) : i \in 1..Len(antennas_df)}

\* The (distance, NomeEntidade) pairs of the records of the data set, the
\* records without an operator name among them.
DataRecords ==
    {<<RowDistance(antennas_df[i], ref_lat_lon), antennas_df[i].NomeEntidade>> :
        i \in 1..Len(antennas_df)}

\* The (distance, operator) pairs of the data set, its groups: the pairs of
\* the records that name an operator.
DataPairs == {pair \in DataRecords : pair[2] # NaN}

DataOperators == {pair[2] : pair \in DataPairs}

\* The buckets up to and including distance d, and the operators in a set of
\* buckets.
BucketsUpTo(d) == {e \in DataDistances : e <= d}

OperatorsIn(buckets) == {pair[2] : pair \in {q \in DataPairs : q[1] \in buckets}}

\* The sets of the k nearest buckets, for every k.
NearestBuckets == {{}} \cup {BucketsUpTo(d) : d \in DataDistances}

\* Every record of the table names its operator.
EveryRowNamed == \A i \in 1..Len(antennas_df) : antennas_df[i].NomeEntidade # NaN

\* Both minimums are met by a set of buckets.
MeetsBoth(buckets) ==
    /\ Cardinality(OperatorsIn(buckets)) >= MinOperators
    /\ Cardinality(buckets) >= num_antennas

\* The result: its distance keys, the operator names under a key, all of its
\* operator names, and whether the group (d, name) is in it.
ResultKeys == SeqToSet(DictKeys(available_antennas))

BucketOperators(d) == SeqToSet(DictKeys(DictGet(available_antennas, d))) \ {"lat/lon"}

ResultOperators == UNION {BucketOperators(d) : d \in ResultKeys}

\* The dict holds the group (d, name): name is a key of its bucket for d.
Holds(antennas, pair) ==
    /\ DictHas(antennas, pair[1])
    /\ DictHas(DictGet(antennas, pair[1]), pair[2])

InResult(pair) == Holds(available_antennas, pair)

\* The farthest bucket of the result.
Farthest == CHOOSE d \in ResultKeys : \A e \in ResultKeys : e <= d

\* -------------------------------------------------------------------- C1
\* The groups about to be visited, and those visited before.
AscendingGroups ==
    \A i, j \in 1..Len(grouped_data) :
        i < j => GroupKey(grouped_data[i][1])[1] <= GroupKey(grouped_data[j][1])[1]

WalkStep ==
    /\ (pc = "loop" /\ idx <= Len(grouped_data)) =>
          LET below == \/ Cardinality(distances) < num_antennas
                       \/ Cardinality(available_companies) < MinOperators
              key   == GroupKey(grouped_data[idx][1])
          IN  /\ ~InResult(key)
              /\ IF below
                 THEN pc' = "loop" /\ idx' = idx + 1 /\ Holds(available_antennas', key)
                 ELSE pc' = "done" /\ ~Holds(available_antennas', key)
                      /\ available_antennas' = available_antennas
    /\ (pc = "done" /\ pc' = "done") => available_antennas' = available_antennas

WalkShape ==
    /\ pc \in {"loop", "done"} =>
          /\ AscendingGroups
          /\ \A g \in 1..Len(grouped_data) :
                InResult(GroupKey(grouped_data[g][1])) <=> g < idx
          /\ distances = ResultKeys
          /\ available_companies = ResultOperators

\* C1: the groups are visited in ascending distance order; the group visited
\* is absorbed into the result exactly when, at that moment, fewer than
\* num_antennas distinct distances or fewer than MinOperators distinct
\* operators have been absorbed; at the first group for which neither holds
\* the walk stops and returns, so the result is the groups visited before it
\* and no later group is in it.
C1_WalkAbsorbsWhileBelow == []WalkShape /\ [][WalkStep]_vars

\* C1 witness: the walk has stopped at a group it did not absorb, after
\* absorbing groups from two buckets.
C1_Witness ==
    /\ pc = "done"
    /\ idx <= Len(grouped_data)
    /\ Cardinality(ResultKeys) >= 2
    /\ ~InResult(GroupKey(grouped_data[idx][1]))

\* -------------------------------------------------------------------- C2
\* The distance keys the stopping rule asks for: the smallest set of nearest
\* buckets that meets both minimums, or every bucket when none does.
ExpectedKeys ==
    IF \E b \in NearestBuckets : MeetsBoth(b)
    THEN CHOOSE b \in NearestBuckets :
            /\ MeetsBoth(b)
            /\ \A c \in NearestBuckets : MeetsBoth(c) => Cardinality(b) <= Cardinality(c)
    ELSE DataDistances

\* C2: the distance keys of the result are exactly the k smallest distinct
\* rounded distances of the data set, k the least number of nearest buckets
\* holding at least MinOperators operators and at least num_antennas
\* distances, and all distances of the data set when there is no such k. It
\* fails where a record has no operator name: its distance is a distance of
\* the data set and is no key of the result.
C2_KeysAreLeastSufficientPrefix == pc = "done" => ResultKeys = ExpectedKeys

\* What holds of C2: the same on the tables whose records all name their
\* operator.
C2_HoldsWhenEveryRowNamed ==
    (pc = "done" /\ EveryRowNamed) => ResultKeys = ExpectedKeys

\* -------------------------------------------------------------------- C3
\* C3: every operator with an antenna at a rounded distance that is a key of
\* the result is in the result's bucket for that distance. It fails at the
\* farthest bucket: the test of line 101 is made per (distance, operator)
\* group, and the walk can stop between two groups of one distance.
C3_TiesNeverSplit ==
    pc = "done" => \A pair \in DataPairs : pair[1] \in ResultKeys => InResult(pair)

\* What holds of C3: an operator is missing from a bucket of the result at
\* whose distance it has an antenna only if the bucket is the farthest one,
\* every operator in it sorts before the missing one, and the result meets
\* both minimums.
C3_TiesSplitOnlyAtCutoff ==
    pc = "done" =>
        \A pair \in DataPairs :
            (pair[1] \in ResultKeys /\ ~InResult(pair)) =>
                /\ pair[1] = Farthest
                /\ \A name \in BucketOperators(pair[1]) :
                      NameRank(name) < NameRank(pair[2])
                /\ Cardinality(ResultKeys) >= num_antennas
                /\ Cardinality(ResultOperators) >= MinOperators

\* -------------------------------------------------------------------- C4
\* C4 as stated: never more distance keys than num_antennas, never fewer
\* operators than MinOperators (tying antennas add no key and no shortage).
C4_NeverBeyondMinimums ==
    pc = "done" =>
        /\ Cardinality(ResultKeys) <= num_antennas
        /\ Cardinality(ResultOperators) >= MinOperators

\* C4 amended: the result holds no more buckets than the stopping rule needs
\* and no fewer operators than the data allows. Without its farthest bucket
\* it has fewer than num_antennas distance keys or fewer than MinOperators
\* operators; and when it has fewer than num_antennas keys or fewer than
\* MinOperators operators, every group of the data set is in it.
C4_NoMoreThanTheRuleNeeds ==
    pc = "done" =>
        /\ ResultKeys # {} =>
              LET rest == ResultKeys \ {Farthest}
              IN  \/ Cardinality(rest) < num_antennas
                  \/ Cardinality(UNION {BucketOperators(d) : d \in rest}) < MinOperators
        /\ (\/ Cardinality(ResultKeys) < num_antennas
            \/ Cardinality(ResultOperators) < MinOperators) =>
              \A pair \in DataPairs : InResult(pair)

\* C4 witness: a result with more distance keys than num_antennas, taken
\* because the nearer buckets held a single operator.
C4_Witness ==
    /\ pc = "done"
    /\ num_antennas >= 1
    /\ Cardinality(ResultKeys) > num_antennas
    /\ Cardinality(ResultOperators) >= MinOperators
    /\ Cardinality(UNION {BucketOperators(d) : d \in ResultKeys \ {Farthest}}) = 1

\* -------------------------------------------------------------------- C5
\* The data set has fewer distances than num_antennas or fewer operators than
\* MinOperators.
Insufficient ==
    \/ Cardinality(DataDistances) < num_antennas
    \/ Cardinality(DataOperators) < MinOperators

\* C5: when the data set has fewer distinct rounded distances than
\* num_antennas or fewer distinct operators than MinOperators, the call does
\* not raise and its result holds everything: the (distance, operator) pair
\* of every record of the input. It fails where a record has no operator
\* name: the record is in the input and in no bucket of the result.
C5_InsufficientDataReturnsAll ==
    (pc # "idle" /\ Insufficient) =>
        /\ pc # "raised"
        /\ pc = "done" => \A pair \in DataRecords : InResult(pair)

\* What holds of C5: the call does not raise, and the result holds every
\* group, the pairs of the records that name their operator.
C5_InsufficientDataReturnsGroups ==
    (pc # "idle" /\ Insufficient) =>
        /\ pc # "raised"
        /\ pc = "done" => \A pair \in DataPairs : InResult(pair)

\* -------------------------------------------------------------------- C6
\* The num_antennas nearest buckets (all of them when there are fewer).
NearestWanted == {d \in DataDistances : Cardinality(BucketsUpTo(d)) <= num_antennas}

\* The buckets up to and including the nearest one at which MinOperators
\* operators have been seen; every bucket when there is none.
UpToOperatorMinimum ==
    LET reached == {d \in DataDistances :
                      Cardinality(OperatorsIn(BucketsUpTo(d))) >= MinOperators}
    IN  IF reached = {} THEN DataDistances
        ELSE BucketsUpTo(CHOOSE d \in reached : \A e \in reached : d <= e)

\* The scenario of the specification: operator A at 1.0, 2.0 and 3.0 km,
\* operator B at 4.0 km, two distances and two operators wanted.
ScenarioCall ==
    /\ Len(antennas_df) = 4
    /\ DataPairs = {<<100, "A">>, <<200, "A">>, <<300, "A">>, <<400, "B">>}
    /\ num_antennas = 2

\* C6: when the num_antennas nearest buckets hold fewer than MinOperators
\* operators, the result's keys are the buckets up to and including the first
\* one that brings the operators to MinOperators; in the scenario the keys
\* are exactly 1.0, 2.0, 3.0 and 4.0. It fails where a bucket on the way
\* holds only records without an operator name: that bucket is skipped.
C6_FartherBucketsUntilOperators ==
    pc = "done" =>
        /\ Cardinality(OperatorsIn(NearestWanted)) < MinOperators =>
              ResultKeys = UpToOperatorMinimum
        /\ ScenarioCall => ResultKeys = {100, 200, 300, 400}

\* What holds of C6: the same on the tables whose records all name their
\* operator, the scenario's among them.
C6_HoldsWhenEveryRowNamed ==
    (pc = "done" /\ EveryRowNamed) =>
        /\ Cardinality(OperatorsIn(NearestWanted)) < MinOperators =>
              ResultKeys = UpToOperatorMinimum
        /\ ScenarioCall => ResultKeys = {100, 200, 300, 400}

\* -------------------------------------------------------------------- C7
\* C7: a minimum of 0 satisfies its half of the stopping condition. With
\* both minimums 0 the result is empty; with only num_antennas 0 the result
\* is determined by the operator minimum alone, its keys the buckets up to
\* and including the first one that brings the operators to it (all buckets
\* when there is none); with only the operator minimum 0 the keys are the
\* num_antennas nearest buckets. The operator minimum is the literal 2 of
\* line 101, so every call is of the second kind or of neither. It fails
\* where a bucket on the way holds only records without an operator name.
C7_ZeroLeavesOtherMinimum ==
    pc = "done" =>
        /\ (num_antennas = 0 /\ MinOperators = 0) => available_antennas = <<>>
        /\ (num_antennas = 0 /\ MinOperators > 0) => ResultKeys = UpToOperatorMinimum
        /\ (num_antennas > 0 /\ MinOperators = 0) => ResultKeys = NearestWanted

\* What holds of C7: with num_antennas 0 the operator minimum alone
\* determines the result on the tables whose records all name their operator.
C7_HoldsWhenEveryRowNamed ==
    (pc = "done" /\ EveryRowNamed /\ num_antennas = 0) =>
        ResultKeys = UpToOperatorMinimum

\* -------------------------------------------------------------------- C8
\* C8: on an empty antenna table a call does not raise and returns the empty
\* mapping, whatever the reference point and num_antennas.
C8_EmptyTableEmptyResult ==
    antennas_df = <<>> =>
        /\ pc # "raised"
        /\ pc = "done" => available_antennas = <<>>

\* C8 witness: a call on the empty table has returned.
C8_Witness ==
    /\ antennas_df = <<>>
    /\ pc = "done"
    /\ num_antennas = MaxNumAntennas
    /\ grouped_data = <<>>

\* -------------------------------------------------------------------- C9
\* C9: a call with the arguments of the first call returns what the first
\* call returned, whatever calls returned in between.
C9_SameArgumentsSameResult ==
    (pc = "done" /\ stage \in {"again", "again_after_other"}) =>
        available_antennas = first_call[3]

\* C9 witness: the first call's arguments were passed again after a call with
\* other arguments, and the result is a proper part of the data set.
C9_Witness ==
    /\ pc = "done"
    /\ stage = "again_after_other"
    /\ available_antennas = first_call[3]
    /\ ResultKeys # {}
    /\ \E pair \in DataPairs : ~InResult(pair)

\* ------------------------------------------------------------------- C10
\* C10: no step changes FileAnalyzer.antennas_df, and its rows have the seven
\* columns they were loaded with, never a distance column.
C10_TableOnlyRead ==
    /\ [][antennas_df' = antennas_df]_vars
    /\ [](\A i \in 1..Len(antennas_df) : DOMAIN antennas_df[i] = Columns)

\* C10 witness: a call returned on a table of MaxRows rows or more while the
\* grouped copy has the distance column.
C10_Witness ==
    /\ pc = "done"
    /\ Len(antennas_df) >= MaxRows
    /\ \A i \in 1..Len(antennas_df) : DOMAIN antennas_df[i] = Columns
    /\ \A g \in 1..Len(grouped_data) : "distance_km" \in DOMAIN grouped_data[g][1]

\* ------------------------------------------------------------------- C12
\* The representative location stored under a distance key.
Representative(d) == DictGet(DictGet(available_antennas, d), "lat/lon")

\* C12: under every distance key d of the result the representative (lat, lon)
\* is the latitude and longitude of one input record whose group was
\* absorbed, and d is the rounded haversine distance from the reference point
\* to that record.
C12_KeyIsDistanceToRepresentative ==
    pc = "done" =>
        \A d \in ResultKeys :
            \E i \in 1..Len(antennas_df) :
                /\ Representative(d) =
                      PyTuple(<<antennas_df[i].Latitude, antennas_df[i].Longitude>>)
                /\ RowDistance(antennas_df[i], ref_lat_lon) = d
                /\ InResult(<<d, antennas_df[i].NomeEntidade>>)

\* C12 witness: a bucket holds one operator's antennas of two sites that round
\* to the same distance and are its only records, and its representative is
\* the site of the record that comes later in the table: the sort put the
\* later one of two equal distances first.
C12_Witness ==
    /\ pc = "done"
    /\ \E d \in ResultKeys :
          /\ \E i, j \in 1..Len(antennas_df) :
                /\ j < i
                /\ antennas_df[i].Latitude # antennas_df[j].Latitude
                /\ antennas_df[i].NomeEntidade = antennas_df[j].NomeEntidade
                /\ \A k \in 1..Len(antennas_df) :
                      RowDistance(antennas_df[k], ref_lat_lon) = d <=> k \in {i, j}
                /\ Representative(d) =
                      PyTuple(<<antennas_df[i].Latitude, antennas_df[i].Longitude>>)

\* ------------------------------------------------------------------- C13
\* C13: the groups are processed in non-decreasing order of rounded distance,
\* and no group left out of the result is strictly closer than a group in it.
C13_NoExcludedGroupCloser ==
    pc = "done" =>
        /\ AscendingGroups
        /\ \A taken \in DataPairs : \A left \in DataPairs :
              (InResult(taken) /\ ~InResult(left)) => taken[1] <= left[1]

\* C13 witness: a call returned two buckets and left out a group that lies
\* strictly beyond the farther of them.
C13_Witness ==
    /\ pc = "done"
    /\ Cardinality(ResultKeys) = 2
    /\ \E left \in DataPairs : ~InResult(left) /\ left[1] > Farthest

\* ------------------------------------------------------------------- C14
\* The input records of operator name at rounded distance d.
RecordsOf(d, name) ==
    {i \in 1..Len(antennas_df) :
        /\ antennas_df[i].NomeEntidade = name
        /\ RowDistance(antennas_df[i], ref_lat_lon) = d}

NoDuplicates(list) == Cardinality(SeqToSet(list)) = Len(list)

\* The list holds each value of the column over the records once.
ExactlyTheValues(list, records, column) ==
    /\ NoDuplicates(list)
    /\ SeqToSet(list) = {antennas_df[i][column] : i \in records}

Bundle(d, name) == DictGet(DictGet(available_antennas, d), name)

\* C14: for every distance key d and operator o of the result, each of the
\* four lists of the bundle has no duplicate and holds exactly the values of
\* its column over all input records of operator o at rounded distance d.
C14_BundleListsExact ==
    pc = "done" =>
        \A d \in ResultKeys : \A name \in BucketOperators(d) :
            /\ ExactlyTheValues(Bundle(d, name).Freq, RecordsOf(d, name), "FreqTxMHz")
            /\ ExactlyTheValues(Bundle(d, name).Tecnologia, RecordsOf(d, name), "Tecnologia")
            /\ ExactlyTheValues(Bundle(d, name).Azimute, RecordsOf(d, name), "Azimute")
            /\ ExactlyTheValues(Bundle(d, name).Altura, RecordsOf(d, name), "AlturaAntena")

\* C14 witness: a bundle built from three records that share a frequency and
\* have two different heights.
C14_Witness ==
    /\ pc = "done"
    /\ \E d \in ResultKeys : \E name \in BucketOperators(d) :
          /\ Cardinality(RecordsOf(d, name)) = 3
          /\ Len(Bundle(d, name).Freq) = 1
          /\ Len(Bundle(d, name).Altura) = 2

\* ------------------------------------------------------------------- C11
\* The dict a thread's call has returned.
ThreadResult(thread) == locals[Slot(thread)].available_antennas

\* C11: a call that runs while another call, for another reference point, runs
\* on the same table returns what it returns when it runs alone.
C11_ConcurrentCallsAsAlone ==
    \A thread \in Threads :
        calls[thread].pc = "done" =>
            ThreadResult(thread) =
                SelectAlone(antennas_df, calls[thread].num_antennas,
                            calls[thread].ref_lat_lon)

\* C11 witness: both calls have returned, each took steps while the other was
\* inside its loop, and their results are not empty and differ.
C11_Witness ==
    /\ \A thread \in Threads :
          /\ calls[thread].pc = "done"
          /\ calls[thread].interleaved
          /\ ThreadResult(thread) # <<>>
    /\ ThreadResult(1) # ThreadResult(2)

\* ------------------------------------------------------------------- C16
\* C16: the distance from a point to itself is 0, and the distance from a to b
\* equals the distance from b to a.
C16_ReflexiveAndSymmetric ==
    \A m \in measured :
        /\ m.from = m.to => m.distance_mm = 0
        /\ \A n \in measured :
              (n.from = m.to /\ n.to = m.from) => n.distance_mm = m.distance_mm

\* C16 witness: two points that differ in latitude and in longitude have been
\* measured in both orders, and one of them against itself.
C16_Witness ==
    /\ points # <<>>
    /\ points[1][1] # points[2][1]
    /\ points[1][2] # points[2][2]
    /\ \E m, n, o \in measured :
          /\ m.from = points[1] /\ m.to = points[2]
          /\ n.from = points[2] /\ n.to = points[1]
          /\ o.from = points[1] /\ o.to = points[1]
          /\ m.distance_mm > 0

\* ------------------------------------------------------------------- C15
\* The number of groups a call absorbs when no other call runs.
RECURSIVE AbsorbedAlone(_, _, _, _, _)
AbsorbedAlone(groups, i, seen_distances, seen_companies, wanted) ==
    IF i > Len(groups) \/ ~KeepGathering(seen_distances, seen_companies, wanted)
    THEN i - 1
    ELSE AbsorbedAlone(groups, i + 1,
                       DistancesAfter(seen_distances, groups[i]),
                       CompaniesAfter(seen_companies, groups[i]),
                       wanted)

\* The groups absorbed for the reference point, as the frames of their rows.
AbsorbedGroups(table, wanted, ref) ==
    LET groups == create_df_with_distance_column(table, ref).grouped
    IN  {groups[k] : k \in 1..AbsorbedAlone(groups, 1, NewDistances, NewCompanies, wanted)}

\* The members of a JSON object with the given key and a value that passes.
Members(object, key, Passes(_)) ==
    {j \in 1..Len(object) : object[j][1] = key /\ Passes(object[j][2])}

IsPairArray(value) == "array" \in DOMAIN value /\ Len(value.array) = 2

\* C15: every value of the object written to output.json holds exactly one
\* "lat/lon" pair and, for every group absorbed at that distance, exactly one
\* entry under the operator's name with the operator's bundle, and nothing
\* else, whatever the operator names are.
C15_OnePairAndOneEntryPerOperator ==
    \A ref \in RefPoints :
        output_json[ref] # <<>> =>
            \A i \in 1..Len(output_json[ref][1]) :
                LET bucket == output_json[ref][1][i][2]
                    groups == {group \in AbsorbedGroups(antennas_df, ControllerAntennas, ref) :
                                  FloatRepr(GroupKey(group[1])[1]) = output_json[ref][1][i][1]}
                IN  /\ Cardinality(Members(bucket, "lat/lon", IsPairArray)) = 1
                    /\ \A group \in groups :
                          Cardinality(Members(bucket, GroupKey(group[1])[2],
                                              LAMBDA value : value = CompanyInfo(group))) = 1
                    /\ Len(bucket) = 1 + Cardinality(groups)

\* ------------------------------------------------------------------- C18
IsPrefix(short, long) ==
    /\ Len(short) <= Len(long)
    /\ \A i \in 1..Len(short) : short[i] = long[i]

\* The JSON object holds the whole selection for the reference point: one
\* member per distance absorbed, and in it the bundle of every group absorbed.
HoldsSelection(json, ref) ==
    LET groups == AbsorbedGroups(antennas_df, ControllerAntennas, ref)
    IN  /\ Len(json) = Cardinality({GroupKey(group[1])[1] : group \in groups})
        /\ \A group \in groups :
              \E i \in 1..Len(json) :
                  /\ json[i][1] = FloatRepr(GroupKey(group[1])[1])
                  /\ Members(json[i][2], GroupKey(group[1])[2],
                             LAMBDA value : value = CompanyInfo(group)) # {}

\* C18: analyze_lat_lon selects, then writes output.json, then plots the map,
\* then requests the elevations, then plots the profiles; so when the map
\* plot, an elevation request or the profile plot has failed, output.json of
\* the reference point is written and holds the whole selection. When the
\* write itself has failed, only the selection was made.
C18_OutputWrittenBeforePlots ==
    /\ IsPrefix(trace, <<"select", "write", "extract", "map", "elevation", "profile">>)
    /\ failed = "write" => trace = <<"select">>
    /\ profiles_to_plot # <<>> => IsPrefix(<<"select", "write", "extract", "map">>, trace)
    /\ failed \in {"map", "elevation", "profile"} =>
          /\ output_json[lat_lon] # <<>>
          /\ HoldsSelection(output_json[lat_lon][1], lat_lon)

\* C18 witness: the second elevation request of an analysis has failed, and
\* the output file of the reference point holds two distances.
C18_Witness ==
    /\ failed = "elevation"
    /\ Len(profiles_to_plot) = 1
    /\ output_json[lat_lon] # <<>>
    /\ Len(output_json[lat_lon][1]) = 2

\* ------------------------------------------------------------------- C19
\* The i-th bucket of the selection: its representative location, and the
\* heights of its operators as numbers.
BucketLatLon(i) == DictGet(selection[i][2], "lat/lon")

BucketNames(i) == SeqToSet(DictKeys(selection[i][2])) \ {"lat/lon"}

BucketHeights(i, name) ==
    LET texts == DictGet(selection[i][2], name).Altura
    IN  [k \in 1..Len(texts) |-> Float[texts[k]]]

\* The entry is the i-th bucket's: its location, and heights by exactly its
\* operators.
EntryOfBucket(location, heights, i) ==
    /\ location = BucketLatLon(i)
    /\ Len(heights) = Cardinality(BucketNames(i))
    /\ SeqToSet(DictKeys(heights)) = BucketNames(i)
    /\ \A name \in BucketNames(i) : DictGet(heights, name) = BucketHeights(i, name)

\* The height lines drawn are the first ones of the i-th bucket's: under
\* operators of the bucket, the first heights of each.
FirstOfBucket(heights, i) ==
    /\ SeqToSet(DictKeys(heights)) \subseteq BucketNames(i)
    /\ \A name \in SeqToSet(DictKeys(heights)) :
          IsPrefix(DictGet(heights, name), BucketHeights(i, name))

C17_BrowserClosedWhenRunEnds ==
    (run_state \in {"returned", "raised"} /\ browser # "none") => browser = "closed"

\* ------------------------------------------------------------------- C20
\* wait_for_download leaves by returning, and what it has returned is right:
\* None, or the path of a file of the download folder whose name has the
\* prefix and ends with '.zip'; a path if a listing showed such a file, and
\* None only after the timeout.
ReturnedRight ==
    /\ waiting.state # "raised"
    /\ waiting.seen => waiting.state = "returned"
    /\ waiting.state = "returned" =>
          /\ \/ waiting.result = None
             \/ /\ waiting.result \in files
                /\ waiting.result[1] = DownloadPath
                /\ StartsWith(waiting.result[2], FilePrefix)
                /\ EndsWith(waiting.result[2], ".zip")
          /\ waiting.seen => waiting.result # None
          /\ waiting.result = None =>
                /\ ~waiting.seen
                /\ clock - waiting.start_time >= waiting.timeout

\* C20: wait_for_download terminates, and returns the full path of a file of
\* the download folder that starts with the prefix and ends with '.zip', or
\* None; a path whenever a check showed such a file before the timeout, None
\* only if no check did. It fails where a check finds no download folder:
\* os.listdir raises and the call ends with FileNotFoundError.
C20_WaitTerminatesWithPathOrNone ==
    /\ []ReturnedRight
    /\ (waiting.state \in {"test", "sleep"}) ~> (waiting.state = "returned")

\* ------------------------------------------------------------------- C21
\* The path of the file unzip_and_rename is to leave, and the step of run in
\* which unzip_and_rename is called.
NewName == Join(DownloadPath, "antennas-RJ.csv")

UnzipStep ==
    /\ run_state = "running"
    /\ ScraperSteps[awaited + 1] = "unzip_and_rename"
    /\ awaited' # awaited \/ run_state' # run_state

UnzipReturned == run_state \in {"running", "returned"} /\ awaited >= 12

\* The files of the download folder whose names have the prefix and the
\* suffix, and the files extractall writes for the archive.
Renamable(fs) ==
    {path \in fs : /\ path[1] = DownloadPath
                    /\ StartsWith(path[2], FilePrefix)
                    /\ EndsWith(path[2], FileSuffix)}

ExtractedFrom(path) == {Join(DownloadPath, member) : member \in ZipMembers(path)}

\* C21 as stated: whenever unzip_and_rename has returned, the archive it was
\* given no longer exists and a file with the new name exists.
C21_ArchiveGoneAndRenamedOnReturn ==
    UnzipReturned => (filename \notin files /\ NewName \in files)

\* C21: unzip_and_rename never propagates an exception, also when it is given
\* None. Given None or a path that does not exist it leaves the folder as it
\* was. Else it removes nothing but the archive and at most one file with the
\* prefix and the suffix (an extracted one or one that was there before),
\* which it has then renamed to the new name, and adds nothing but members
\* of the archive and the file with the new name. The archive is removed
\* last: when it is gone on return every member has been extracted, and if a
\* file with the prefix and the suffix was there after the extraction, one
\* such file has been renamed and a file with the new name exists; if none
\* was there, nothing has been renamed.
C21_SwallowsAndRemovesArchiveLast ==
    [][UnzipStep =>
          /\ run_state' = "running"
          /\ awaited' = awaited + 1
          /\ (filename = None \/ filename \notin files) => files' = files
          /\ (filename # None /\ filename \in files) =>
                LET extracted  == ExtractedFrom(filename)
                    candidates == Renamable(files \cup extracted)
                    gone       == files \ files'
                    new        == files' \ files
                IN  /\ gone \subseteq {filename} \cup candidates
                    /\ Cardinality(gone \cap candidates) <= 1
                    /\ gone \cap candidates # {} => NewName \in files'
                    /\ new \subseteq extracted \cup {NewName}
                    /\ filename \notin files' =>
                          /\ extracted \ candidates \subseteq files'
                          /\ Cardinality(candidates \ files') =
                                 (IF candidates = {} THEN 0 ELSE 1)
                          /\ candidates # {} => NewName \in files'
                          /\ candidates = {} => NewName \notin new]_vars

\* C21 witness: the call has returned after extracting, and the archive the
\* wait returned is gone; the file renamed is the one that was in the folder
\* before, and the extracted file is there under its own name.
C21_Witness ==
    /\ UnzipReturned
    /\ filename = Archive
    /\ filename \notin files
    /\ NewName \in files
    /\ Join(DownloadPath, "csv_licenciamento.csv") \in files
    /\ Join(DownloadPath, "csv_antigo.csv") \notin files

====
